---- MODULE Spec2Model ----
(***************************************************************************)
(* OCRAnswerBot (src/src/App.js): a React component that binds the camera  *)
(* to a video element, captures a frame on a button click, converts it to  *)
(* grayscale, hands it to Tesseract.recognize, filters the recognized text *)
(* and posts it to a chat-completion endpoint.                             *)
(*                                                                         *)
(* The file holds two copies of the component; the model follows the       *)
(* second one (lines 160-319), which differs from the first only in the    *)
(* effect cleanup (it reads the video element captured at mount time).     *)
(*                                                                         *)
(* JavaScript runs every handler and every promise continuation to         *)
(* completion on one thread, so each action below is one handler or one    *)
(* continuation.  Strings are sequences of one-character strings.          *)
(***************************************************************************)
EXTENDS Integers, Sequences, FiniteSets, TLC

VARIABLES
    mounted,         \* the component is mounted: videoRef.current and canvasRef.current are set
    camera,          \* state of the getUserMedia promise of startCamera
    srcObject,       \* videoElement.srcObject
    stopCount,       \* per camera track: number of stop() calls received
    canvas,          \* pixel data of the offscreen canvas (flat RGBA samples)
    capturedImage,   \* useState: data URL of the snapshot shown to the user
    isProcessing,    \* useState: the busy flag
    recognizedText,  \* useState
    answer,          \* useState
    ocrPending,      \* Tesseract.recognize promises not yet settled
    answerPending,   \* axios.post promises not yet settled
    escaped,         \* functions whose promise was rejected with nobody handling it
    clicks,          \* history: capture triggers so far
    recognizeCalls,  \* history: calls of Tesseract.recognize so far
    answerCalls,     \* history: calls of axios.post so far
    stages,          \* history: per capture cycle, the stages it went through, in order
    recognizedCycle, \* history: the cycle that last wrote recognizedText
    answerCycle,     \* history: the cycle whose reply last wrote answer
    probe            \* input and output of a pure function under test

vars == <<mounted, camera, srcObject, stopCount, canvas, capturedImage,
          isProcessing, recognizedText, answer, ocrPending, answerPending,
          escaped, clicks, recognizeCalls, answerCalls, stages,
          recognizedCycle, answerCycle, probe>>

pipelineVars == <<mounted, camera, srcObject, stopCount, canvas, capturedImage,
          isProcessing, recognizedText, answer, ocrPending, answerPending,
          escaped, clicks, recognizeCalls, answerCalls, stages,
          recognizedCycle, answerCycle>>

(***************************************************************************)
(* Bounds                                                                  *)
(***************************************************************************)
MaxClicks == 2      \* capture triggers per run
MaxTracks == 2      \* tracks of the granted stream
MaxLen == 3         \* length of the strings given to filterText on its own
MaxPixels == 2      \* pixels of the buffers given to the grayscale loop on its own

(***************************************************************************)
(* Characters and strings                                                  *)
(***************************************************************************)
Lower == {"a","b","c","d","e","f","g","h","i","j","k","l","m",
          "n","o","p","q","r","s","t","u","v","w","x","y","z"}
Upper == {"A","B","C","D","E","F","G","H","I","J","K","L","M",
          "N","O","P","Q","R","S","T","U","V","W","X","Y","Z"}
Digit == {"0","1","2","3","4","5","6","7","8","9"}
\* what \s matches and what String.prototype.trim strips (WhiteSpace and
\* LineTerminator of ECMAScript); code points outside ASCII are written U+xxxx
WhiteSpace == {" ", "\t", "\n", "\r", "\f", "U+000B", "U+00A0", "U+FEFF", "U+2028"}
Punct == {"?", ".", ",", "!"}

\* the characters the model feeds in: a letter of each case, a digit, two
\* kinds of whitespace, two of the kept punctuation marks, and three
\* characters the filter removes (ASCII and not)
Alphabet == {"a", "Z", "7", " ", "\n", "?", ",", "#", "-", "U+00E9"}

RECURSIVE SeqsUpTo(_, _)
SeqsUpTo(S, n) ==
    IF n = 0 THEN {<<>>}
    ELSE LET shorter == SeqsUpTo(S, n - 1)
         IN  shorter \cup {Append(s, c) : s \in {t \in shorter : Len(t) = n - 1}, c \in S}

RECURSIVE TrimStart(_)
TrimStart(s) ==
    IF s = <<>> THEN <<>>
    ELSE IF Head(s) \in WhiteSpace THEN TrimStart(Tail(s)) ELSE s

RECURSIVE TrimEnd(_)
TrimEnd(s) ==
    IF s = <<>> THEN <<>>
    ELSE IF s[Len(s)] \in WhiteSpace THEN TrimEnd(SubSeq(s, 1, Len(s) - 1)) ELSE s

\* String.prototype.trim
Trim(s) == TrimEnd(TrimStart(s))

\* a character class that also lets "-" and "#" through
KeptWithRange(c) == c \in Lower \cup Upper \cup Digit \cup WhiteSpace \cup Punct \cup {"-", "#"}

\* the character class [a-zA-Z0-9\s?.,!] whose complement the filter deletes
Kept(c) == c \in Lower \cup Upper \cup Digit \cup WhiteSpace \cup Punct

\* text.replace(/[^a-zA-Z0-9\s?.,!]/g, '')
RemoveDisallowed(text) == SelectSeq(text, Kept)

\* a filter that trims before it removes the disallowed characters
filterTextTrimsFirst(text) == RemoveDisallowed(Trim(text))

\* filterText = text => text.replace(/[^a-zA-Z0-9\s?.,!]/g, '').trim()
filterText(text) == Trim(RemoveDisallowed(text))

\* the value JavaScript calls undefined, where a string is expected
Undefined == <<"undefined">>

NoTextRecognized ==
    <<"N","o"," ","t","e","x","t"," ","r","e","c","o","g","n","i","z","e","d",".">>

Apology ==
    <<"S","o","r","r","y",","," ","I"," ","c","o","u","l","d","n","'","t"," ",
      "f","e","t","c","h"," ","a","n"," ","a","n","s","w","e","r",".">>

(***************************************************************************)
(* Frames and the grayscale preprocessing                                  *)
(***************************************************************************)
\* the frames the video element can show once a stream is bound, as the flat
\* RGBA array getImageData returns: one of a single pixel whose average is
\* not a whole number, one of two pixels, the second translucent and
\* rounding up to 255
Frames == { <<10, 20, 40, 255>>,
            <<0, 0, 0, 255,  255, 255, 254, 128>> }

\* storing the quotient sum/3 into a Uint8ClampedArray: round to nearest
\* (a third never lies on a tie) and clamp to 255
StoreThird(sum) ==
    LET q == (sum + 1) \div 3 IN IF q > 255 THEN 255 ELSE q

\* a loop that stops one pixel early (i < data.length - 4)
GrayscaleSkipsLast(data) ==
    [i \in 1..Len(data) |->
        LET ch == (i - 1) % 4
            r  == i - ch
        IN  IF ch = 3 \/ i > Len(data) - 4 THEN data[i]
            ELSE StoreThird(data[r] + data[r + 1] + data[r + 2])]

\* a loop that writes the average to red and green only
GrayscaleLeavesBlue(data) ==
    [i \in 1..Len(data) |->
        LET ch == (i - 1) % 4
            r  == i - ch
        IN  IF ch >= 2 THEN data[i]
            ELSE StoreThird(data[r] + data[r + 1] + data[r + 2])]

\* the loop of preprocessImage over the flat RGBA array: the three colour
\* channels of every pixel take their average, alpha stays
Grayscale(data) ==
    [i \in 1..Len(data) |->
        LET ch == (i - 1) % 4
            r  == i - ch
        IN  IF ch = 3 THEN data[i]
            ELSE StoreThird(data[r] + data[r + 1] + data[r + 2])]

\* canvas.toDataURL("image/png"): a canvas without pixels gives "data:,"
toDataURL(data) ==
    IF Len(data) = 0 THEN [kind |-> "empty"]
    ELSE [kind |-> "png", data |-> data]

\* preprocessImage(canvas): getImageData throws IndexSizeError on a canvas of
\* width or height 0; otherwise the buffer is made gray in place and encoded
preprocessImage(data) ==
    IF Len(data) = 0 THEN [threw |-> TRUE, data |-> data, url |-> toDataURL(data)]
    ELSE [threw |-> FALSE, data |-> Grayscale(data), url |-> toDataURL(Grayscale(data))]

(***************************************************************************)
(* Values of the external collaborators                                   *)
(***************************************************************************)
Null == [kind |-> "null"]

Stream(n) == [kind |-> "stream", tracks |-> 1..n]

\* texts the OCR engine can return: empty, whitespace only, plain, with
\* surrounding whitespace, with whitespace inside, with characters the
\* filter removes, and made of such characters only
OcrTexts == { <<>>,
              <<" ">>,
              <<"\n", " ">>,
              <<"a">>,
              <<" ", "a", "\n">>,
              <<"a", " ", "?">>,
              <<"7", "#", "a">>,
              <<"#", " ", "a">>,
              <<"#">>,
              <<" ", "#", "-">> }

\* message contents the completion endpoint can return
Contents == {<<"4", "2">>, <<"o", "k">>}

\* choices of a completion body: well formed, with a message that has no
\* content, and without a message
Choice(c) == [message |-> [content |-> c]]
ChoiceNoContent == [message |-> [role |-> "assistant"]]
ChoiceNoMessage == [index |-> 0]

\* response.data: bodies without a list of choices, with an empty list, with
\* one choice of each kind, and with a second choice of another kind or
\* content than the first
Bodies ==
    { [error |-> "invalid_request"],
      [choices |-> <<>>],
      [choices |-> <<Choice(<<"4", "2">>)>>],
      [choices |-> <<Choice(<<"o", "k">>)>>],
      [choices |-> <<ChoiceNoContent>>],
      [choices |-> <<ChoiceNoMessage>>],
      [choices |-> <<Choice(<<"4", "2">>), Choice(<<"o", "k">>)>>],
      [choices |-> <<Choice(<<"o", "k">>), ChoiceNoMessage>>],
      [choices |-> <<ChoiceNoMessage, Choice(<<"4", "2">>)>>],
      [choices |-> <<ChoiceNoContent, Choice(<<"o", "k">>)>>] }

\* how the promise of axios.post settles
Outcomes == {[ok |-> TRUE, data |-> b] : b \in Bodies} \cup {[ok |-> FALSE]}

\* reading the content of the last choice instead of the first
LastContent(body) ==
    IF "choices" \notin DOMAIN body THEN [threw |-> TRUE, value |-> Undefined]
    ELSE IF Len(body.choices) = 0 THEN [threw |-> TRUE, value |-> Undefined]
    ELSE LET last == body.choices[Len(body.choices)]
         IN  IF "message" \notin DOMAIN last THEN [threw |-> TRUE, value |-> Undefined]
             ELSE IF "content" \notin DOMAIN last.message
                  THEN [threw |-> FALSE, value |-> Undefined]
                  ELSE [threw |-> FALSE, value |-> last.message.content]

\* response.data.choices[0].message.content: reading a property of undefined
\* throws a TypeError, reading a missing property gives undefined
FirstContent(body) ==
    IF "choices" \notin DOMAIN body THEN [threw |-> TRUE, value |-> Undefined]
    ELSE IF Len(body.choices) = 0 THEN [threw |-> TRUE, value |-> Undefined]
    ELSE LET first == body.choices[1]
         IN  IF "message" \notin DOMAIN first THEN [threw |-> TRUE, value |-> Undefined]
             ELSE IF "content" \notin DOMAIN first.message
                  THEN [threw |-> FALSE, value |-> Undefined]
                  ELSE [threw |-> FALSE, value |-> first.message.content]

\* the part of fetchAnswer after the await: the try block sets the answer
\* from the body, the catch block takes a rejection and anything thrown while
\* reading the body; nothing is thrown out of the catch block
fetchAnswerSettled(outcome) ==
    IF ~outcome.ok THEN [answer |-> Apology, escapes |-> FALSE]
    ELSE LET r == FirstContent(outcome.data)
         IN  IF r.threw THEN [answer |-> Apology, escapes |-> FALSE]
             ELSE [answer |-> r.value, escapes |-> FALSE]

NoProbe == [op |-> "none"]

(***************************************************************************)
(* The component                                                           *)
(***************************************************************************)
\* after the first render and its effect: startCamera has called
\* getUserMedia and waits for it
PipelineInit ==
    /\ mounted = TRUE
    /\ camera = [status |-> "pending", tracks |-> {}]
    /\ srcObject = Null
    /\ stopCount = [t \in 1..MaxTracks |-> 0]
    /\ canvas = <<>>
    /\ capturedImage = Null
    /\ isProcessing = FALSE
    /\ recognizedText = <<>>
    /\ answer = <<>>
    /\ ocrPending = {}
    /\ answerPending = {}
    /\ escaped = {}
    /\ clicks = 0
    /\ recognizeCalls = 0
    /\ answerCalls = 0
    /\ stages = [c \in 1..MaxClicks |-> <<>>]
    /\ recognizedCycle = 0
    /\ answerCycle = 0

Init ==
    /\ PipelineInit
    /\ probe = NoProbe

\* startCamera, after the await: the stream is bound if the video element
\* is still there
CameraGranted(n) ==
    /\ camera.status = "pending"
    /\ camera' = [status |-> "granted", tracks |-> 1..n]
    /\ srcObject' = IF mounted THEN Stream(n) ELSE srcObject
    /\ UNCHANGED <<mounted, stopCount, canvas, capturedImage, isProcessing,
                   recognizedText, answer, ocrPending, answerPending, escaped,
                   clicks, recognizeCalls, answerCalls, stages,
                   recognizedCycle, answerCycle, probe>>

\* a catch block that shows the failure in the answer area
CameraDeniedShowsError ==
    /\ camera.status = "pending"
    /\ camera' = [status |-> "denied", tracks |-> {}]
    /\ answer' = Apology
    /\ UNCHANGED <<mounted, srcObject, stopCount, canvas, capturedImage,
                   isProcessing, recognizedText, ocrPending,
                   answerPending, escaped, clicks, recognizeCalls, answerCalls,
                   stages, recognizedCycle, answerCycle, probe>>

\* startCamera, the catch block: the error is logged
CameraDenied ==
    /\ camera.status = "pending"
    /\ camera' = [status |-> "denied", tracks |-> {}]
    /\ UNCHANGED <<mounted, srcObject, stopCount, canvas, capturedImage,
                   isProcessing, recognizedText, answer, ocrPending,
                   answerPending, escaped, clicks, recognizeCalls, answerCalls,
                   stages, recognizedCycle, answerCycle, probe>>

\* a cleanup that reads videoRef.current when it runs, after React has
\* cleared the ref: it finds no element and no stream
CleanupTracksRefCleared == {}

\* the tracks the effect cleanup stops: those of videoElement.srcObject, the
\* element having been read from the ref when the effect ran
CleanupTracks ==
    IF srcObject = Null THEN {} ELSE srcObject.tracks

\* unmount: the effect cleanup runs and the refs are cleared
Unmount ==
    /\ mounted
    /\ mounted' = FALSE
    /\ stopCount' = [t \in 1..MaxTracks |->
                        IF t \in CleanupTracks THEN stopCount[t] + 1 ELSE stopCount[t]]
    /\ UNCHANGED <<camera, srcObject, canvas, capturedImage, isProcessing,
                   recognizedText, answer, ocrPending, answerPending, escaped,
                   clicks, recognizeCalls, answerCalls, stages,
                   recognizedCycle, answerCycle, probe>>

\* what the video element shows: a frame of the bound stream, nothing
\* (videoWidth = videoHeight = 0) while no stream is bound
VideoFrames == IF srcObject = Null THEN {<<>>} ELSE Frames

\* fetchAnswer up to its await: axios.post is called with the question
fetchAnswer(cycle, question) ==
    /\ answerPending' = answerPending \cup {[cycle |-> cycle, question |-> question]}
    /\ answerCalls' = answerCalls + 1

\* processImage that encodes the frame before making it gray, so that the
\* engine is given the colour image
processImageEncodesFirst(cycle, drawn) ==
    IF isProcessing
    THEN /\ canvas' = drawn
         /\ stages' = [stages EXCEPT ![cycle] = <<"capture">>]
         /\ UNCHANGED <<isProcessing, ocrPending, recognizeCalls, escaped>>
    ELSE LET pre == preprocessImage(drawn)
         IN  /\ isProcessing' = TRUE
             /\ IF pre.threw
                THEN /\ canvas' = drawn
                     /\ escaped' = escaped \cup {"processImage"}
                     /\ stages' = [stages EXCEPT ![cycle] = <<"capture">>]
                     /\ UNCHANGED <<ocrPending, recognizeCalls>>
                ELSE /\ canvas' = pre.data
                     /\ ocrPending' = ocrPending \cup
                            {[cycle |-> cycle, image |-> toDataURL(drawn), frame |-> drawn]}
                     /\ recognizeCalls' = recognizeCalls + 1
                     /\ stages' = [stages EXCEPT ![cycle] =
                                      <<"capture", "recognize", "preprocess">>]
                     /\ UNCHANGED escaped

\* processImage that forgets setIsProcessing(true)
processImageFlagNotSet(cycle, drawn) ==
    IF isProcessing
    THEN /\ canvas' = drawn
         /\ stages' = [stages EXCEPT ![cycle] = <<"capture">>]
         /\ UNCHANGED <<isProcessing, ocrPending, recognizeCalls, escaped>>
    ELSE LET pre == preprocessImage(drawn)
         IN  /\ UNCHANGED isProcessing
             /\ IF pre.threw
                THEN /\ canvas' = drawn
                     /\ escaped' = escaped \cup {"processImage"}
                     /\ stages' = [stages EXCEPT ![cycle] = <<"capture">>]
                     /\ UNCHANGED <<ocrPending, recognizeCalls>>
                ELSE /\ canvas' = pre.data
                     /\ ocrPending' = ocrPending \cup
                            {[cycle |-> cycle, image |-> pre.url, frame |-> drawn]}
                     /\ recognizeCalls' = recognizeCalls + 1
                     /\ stages' = [stages EXCEPT ![cycle] =
                                      <<"capture", "preprocess", "recognize">>]
                     /\ UNCHANGED escaped

\* processImage(canvas), the canvas holding the frame just drawn
processImage(cycle, drawn) ==
    IF isProcessing
    THEN /\ canvas' = drawn
         /\ stages' = [stages EXCEPT ![cycle] = <<"capture">>]
         /\ UNCHANGED <<isProcessing, ocrPending, recognizeCalls, escaped>>
    ELSE LET pre == preprocessImage(drawn)
         IN  /\ isProcessing' = TRUE
             /\ IF pre.threw
                THEN /\ canvas' = drawn
                     /\ escaped' = escaped \cup {"processImage"}
                     /\ stages' = [stages EXCEPT ![cycle] = <<"capture">>]
                     /\ UNCHANGED <<ocrPending, recognizeCalls>>
                ELSE /\ canvas' = pre.data
                     /\ ocrPending' = ocrPending \cup
                            {[cycle |-> cycle, image |-> pre.url, frame |-> drawn]}
                     /\ recognizeCalls' = recognizeCalls + 1
                     /\ stages' = [stages EXCEPT ![cycle] =
                                      <<"capture", "preprocess", "recognize">>]
                     /\ UNCHANGED escaped

\* captureFrame: the click handler of the capture button
captureFrame(cycle, frame) ==
    IF ~mounted
    THEN UNCHANGED <<canvas, capturedImage, isProcessing, ocrPending,
                     recognizeCalls, escaped, stages>>
    ELSE /\ capturedImage' = toDataURL(frame)
         /\ processImage(cycle, frame)

\* a button that also stays disabled while an answer request is pending
ButtonDisabledWhileAnswering == isProcessing \/ answerPending # {}

\* a button without the disabled attribute
ButtonNeverDisabled == FALSE

\* disabled={isProcessing} on the capture button
ButtonDisabled == isProcessing

\* the user clicks the capture button while it is enabled
ClickCapture ==
    /\ mounted
    /\ clicks < MaxClicks
    /\ ~ButtonDisabled
    /\ clicks' = clicks + 1
    /\ \E frame \in VideoFrames : captureFrame(clicks + 1, frame)
    /\ UNCHANGED <<mounted, camera, srcObject, stopCount, recognizedText, answer,
                   answerPending, answerCalls, recognizedCycle, answerCycle,
                   probe>>

\* the user clicks the capture button while it is disabled: the browser
\* dispatches no click event
ClickDisabled ==
    /\ mounted
    /\ clicks < MaxClicks
    /\ ButtonDisabled
    /\ clicks' = clicks + 1
    /\ UNCHANGED <<mounted, camera, srcObject, stopCount, canvas, capturedImage,
                   isProcessing, recognizedText, answer, ocrPending,
                   answerPending, escaped, recognizeCalls, answerCalls, stages,
                   recognizedCycle, answerCycle, probe>>

\* the then callback testing `text` where the code tests `text.trim()`
recognizeThenUntrimmedTest(text) ==
    IF text # <<>>
    THEN [found |-> TRUE, recognizedText |-> filterText(Trim(text))]
    ELSE [found |-> FALSE, recognizedText |-> NoTextRecognized]

\* the branch of the then callback of Tesseract.recognize: a text that is
\* not empty after trimming is trimmed and filtered and becomes the
\* question, any other text gives the sentinel and no question
recognizeThen(text) ==
    IF Trim(text) # <<>>
    THEN [found |-> TRUE, recognizedText |-> filterText(Trim(text))]
    ELSE [found |-> FALSE, recognizedText |-> NoTextRecognized]

\* a then callback that clears the answer when it shows the sentinel
OcrResolveClearsAnswer(req, text) ==
    /\ req \in ocrPending
    /\ ocrPending' = ocrPending \ {req}
    /\ LET r == recognizeThen(text)
       IN  /\ recognizedText' = r.recognizedText
           /\ IF r.found
              THEN /\ fetchAnswer(req.cycle, r.recognizedText)
                   /\ stages' = [stages EXCEPT ![req.cycle] =
                                    @ \o <<"recognized", "filter", "answer">>]
                   /\ UNCHANGED answer
              ELSE /\ stages' = [stages EXCEPT ![req.cycle] =
                                    @ \o <<"recognized", "sentinel">>]
                   /\ answer' = <<>>
                   /\ UNCHANGED <<answerPending, answerCalls>>
    /\ isProcessing' = FALSE
    /\ recognizedCycle' = req.cycle
    /\ UNCHANGED <<mounted, camera, srcObject, stopCount, canvas, capturedImage,
                   escaped, clicks, recognizeCalls, answerCycle, probe>>

\* the then callback of Tesseract.recognize, called with the text
OcrResolve(req, text) ==
    /\ req \in ocrPending
    /\ ocrPending' = ocrPending \ {req}
    /\ LET r == recognizeThen(text)
       IN  /\ recognizedText' = r.recognizedText
           /\ IF r.found
              THEN /\ fetchAnswer(req.cycle, r.recognizedText)
                   /\ stages' = [stages EXCEPT ![req.cycle] =
                                    @ \o <<"recognized", "filter", "answer">>]
              ELSE /\ stages' = [stages EXCEPT ![req.cycle] =
                                    @ \o <<"recognized", "sentinel">>]
                   /\ UNCHANGED <<answerPending, answerCalls>>
    /\ isProcessing' = FALSE
    /\ recognizedCycle' = req.cycle
    /\ UNCHANGED <<mounted, camera, srcObject, stopCount, canvas, capturedImage,
                   answer, escaped, clicks, recognizeCalls, answerCycle,
                   probe>>

\* the promise of Tesseract.recognize is rejected: the then callback is
\* skipped and no rejection handler is registered
OcrReject(req) ==
    /\ req \in ocrPending
    /\ ocrPending' = ocrPending \ {req}
    /\ escaped' = escaped \cup {"Tesseract.recognize"}
    /\ stages' = [stages EXCEPT ![req.cycle] = @ \o <<"rejected">>]
    /\ UNCHANGED <<mounted, camera, srcObject, stopCount, canvas, capturedImage,
                   isProcessing, recognizedText, answer, answerPending, clicks,
                   recognizeCalls, answerCalls, recognizedCycle, answerCycle,
                   probe>>

\* a catch block that posts the question again after a failure
AnswerSettleRetries(req, outcome) ==
    /\ req \in answerPending
    /\ LET r == fetchAnswerSettled(outcome)
       IN  /\ answer' = r.answer
           /\ escaped' = IF r.escapes THEN escaped \cup {"fetchAnswer"} ELSE escaped
           /\ IF r.answer = Apology /\ answerCalls < 2 * MaxClicks
              THEN /\ answerCalls' = answerCalls + 1
                   /\ UNCHANGED <<answerPending, answerCycle, stages>>
              ELSE /\ answerPending' = answerPending \ {req}
                   /\ answerCycle' = req.cycle
                   /\ stages' = [stages EXCEPT ![req.cycle] = @ \o <<"settled">>]
                   /\ UNCHANGED answerCalls
    /\ UNCHANGED <<mounted, camera, srcObject, stopCount, canvas, capturedImage,
                   isProcessing, recognizedText, ocrPending, clicks,
                   recognizeCalls, recognizedCycle, probe>>

\* fetchAnswer resumes after its await, the request having settled
AnswerSettle(req, outcome) ==
    /\ req \in answerPending
    /\ answerPending' = answerPending \ {req}
    /\ LET r == fetchAnswerSettled(outcome)
       IN  /\ answer' = r.answer
           /\ escaped' = IF r.escapes THEN escaped \cup {"fetchAnswer"} ELSE escaped
    /\ answerCycle' = req.cycle
    /\ stages' = [stages EXCEPT ![req.cycle] = @ \o <<"settled">>]
    /\ UNCHANGED <<mounted, camera, srcObject, stopCount, canvas, capturedImage,
                   isProcessing, recognizedText, ocrPending, clicks,
                   recognizeCalls, answerCalls, recognizedCycle, probe>>

Next ==
    \/ \E n \in 1..MaxTracks : CameraGranted(n)
    \/ CameraDenied
    \/ Unmount
    \/ ClickCapture
    \/ ClickDisabled
    \/ \E req \in ocrPending, text \in OcrTexts : OcrResolve(req, text)
    \/ \E req \in ocrPending : OcrReject(req)
    \/ \E req \in answerPending, outcome \in Outcomes : AnswerSettle(req, outcome)

Spec == Init /\ [][Next]_vars

\* the engine and the endpoint settle every request they were given
OcrSettle ==
    \/ \E req \in ocrPending, text \in OcrTexts : OcrResolve(req, text)
    \/ \E req \in ocrPending : OcrReject(req)

AnswerSettles ==
    \E req \in answerPending, outcome \in Outcomes : AnswerSettle(req, outcome)

FairSpec == Spec /\ WF_vars(OcrSettle) /\ WF_vars(AnswerSettles)

(***************************************************************************)
(* filterText on its own                                                   *)
(***************************************************************************)
FilterInputs == SeqsUpTo(Alphabet, MaxLen)

InitFilter ==
    /\ PipelineInit
    /\ probe \in {[op |-> "filterText", in |-> s, out |-> <<>>, done |-> FALSE,
                   again |-> <<>>, redone |-> FALSE] : s \in FilterInputs}

ApplyFilter ==
    /\ probe.op = "filterText"
    /\ ~probe.done
    /\ probe' = [probe EXCEPT !.out = filterText(probe.in), !.done = TRUE]
    /\ UNCHANGED pipelineVars

\* the output is given to filterText once more
ApplyFilterAgain ==
    /\ probe.op = "filterText"
    /\ probe.done
    /\ ~probe.redone
    /\ probe' = [probe EXCEPT !.again = filterText(probe.out), !.redone = TRUE]
    /\ UNCHANGED pipelineVars

NextFilter ==
    \/ ApplyFilter
    \/ ApplyFilterAgain

SpecFilter == InitFilter /\ [][NextFilter]_vars

(***************************************************************************)
(* The grayscale loop on its own                                           *)
(***************************************************************************)
\* colour samples at both ends of the 8-bit range, whose sums of three fall
\* in every residue class modulo 3, and two alpha values
GrayChannels == {0, 1, 255}
GrayAlphas == {7, 255}
PixelSamples ==
    {<<r, g, b, a>> : r \in GrayChannels, g \in GrayChannels,
                      b \in GrayChannels, a \in GrayAlphas}

RECURSIVE Flatten(_)
Flatten(pixels) ==
    IF pixels = <<>> THEN <<>> ELSE Head(pixels) \o Flatten(Tail(pixels))

\* imageData.data of a canvas of 1 to MaxPixels pixels
GrayInputs == {Flatten(p) : p \in SeqsUpTo(PixelSamples, MaxPixels) \ {<<>>}}

InitGray ==
    /\ PipelineInit
    /\ probe \in {[op |-> "grayscale", in |-> d, out |-> <<>>, done |-> FALSE,
                   again |-> <<>>, redone |-> FALSE] : d \in GrayInputs}

ApplyGray ==
    /\ probe.op = "grayscale"
    /\ ~probe.done
    /\ probe' = [probe EXCEPT !.out = Grayscale(probe.in), !.done = TRUE]
    /\ UNCHANGED pipelineVars

\* the loop runs once more over the buffer it has made gray
ApplyGrayAgain ==
    /\ probe.op = "grayscale"
    /\ probe.done
    /\ ~probe.redone
    /\ probe' = [probe EXCEPT !.again = Grayscale(probe.out), !.redone = TRUE]
    /\ UNCHANGED pipelineVars

NextGray ==
    \/ ApplyGray
    \/ ApplyGrayAgain

SpecGray == InitGray /\ [][NextGray]_vars

(***************************************************************************)
(* Properties                                                              *)
(***************************************************************************)
\* the answer request of the cycle has settled
Settled(c) == stages[c] # <<>> /\ stages[c][Len(stages[c])] = "settled"

\* a text that is empty or holds only whitespace
IsBlank(text) == \A i \in 1..Len(text) : text[i] \in WhiteSpace

\* C1: at most one recognition request is outstanding at any time, and a
\* capture trigger that arrives while one is outstanding calls the OCR
\* engine no second time.
C1_OneRecognitionOutstanding ==
    /\ [](Cardinality(ocrPending) <= 1)
    /\ [][(ocrPending # {} /\ clicks' = clicks + 1)
            => (recognizeCalls' = recognizeCalls /\ ocrPending' = ocrPending)]_vars

\* a second trigger has arrived while the first recognition is outstanding
C1_Witness ==
    /\ clicks = 2
    /\ recognizeCalls = 1
    /\ ocrPending # {}

\* C2: when the OCR engine completes with an empty or whitespace-only text,
\* Recognized Text becomes "No text recognized." and no request to the
\* answer endpoint is issued.
C2_BlankTextGivesSentinel ==
    [][\A req \in ocrPending, text \in OcrTexts :
          (IsBlank(text) /\ OcrResolve(req, text))
            => /\ recognizedText' = NoTextRecognized
               /\ answerCalls' = answerCalls
               /\ answerPending' = answerPending]_vars

\* a recognition has completed without text and nothing was asked
C2_Witness ==
    /\ recognizedText = NoTextRecognized
    /\ answerCalls = 0
    /\ \E c \in 1..MaxClicks :
          stages[c] = <<"capture", "preprocess", "recognize", "recognized", "sentinel">>

\* C3: after every accepted capture trigger the pipeline returns to Idle
\* (Busy Flag false), whatever external failure occurs in the cycle: once the
\* camera request and every request of the cycles have settled, nothing is
\* left that could clear the flag, so the component must be Idle by then.
C3_IdleWhenSettled ==
    (mounted /\ camera.status # "pending" /\ ocrPending = {} /\ answerPending = {})
        => ~isProcessing

\* the answer request failed: it was rejected, or its body has no first
\* choice, no message in it, or no content in the message
Failed(outcome) ==
    \/ ~outcome.ok
    \/ "choices" \notin DOMAIN outcome.data
    \/ outcome.data.choices = <<>>
    \/ "message" \notin DOMAIN outcome.data.choices[1]
    \/ "content" \notin DOMAIN outcome.data.choices[1].message

\* C4: when the answer request fails for any reason, Answer Text becomes
\* exactly "Sorry, I couldn't fetch an answer." and no exception escapes
\* fetchAnswer.
C4_FailureGivesApology ==
    [][\A req \in answerPending, outcome \in Outcomes :
          (Failed(outcome) /\ AnswerSettle(req, outcome))
            => (answer' = Apology /\ escaped' = escaped)]_vars

\* C5: when the answer request succeeds (it is resolved with a body whose
\* choices list is non-empty and whose first choice carries a message
\* content), Answer Text becomes exactly the message content of the first
\* choice, whatever other choices the body holds.
C5_FirstChoiceContent ==
    [][\A req \in answerPending, outcome \in Outcomes :
          (~Failed(outcome) /\ AnswerSettle(req, outcome))
            => answer' = outcome.data.choices[1].message.content]_vars

\* a reply has been displayed
C5_Witness ==
    /\ answer \in Contents
    /\ answerCycle # 0
    /\ Settled(answerCycle)

IsPrefix(s, t) == Len(s) <= Len(t) /\ SubSeq(t, 1, Len(s)) = s

\* the orders in which a capture cycle can go through its stages
StageOrders ==
    { <<"capture", "preprocess", "recognize", "recognized", "filter", "answer", "settled">>,
      <<"capture", "preprocess", "recognize", "recognized", "sentinel">>,
      <<"capture", "preprocess", "recognize", "rejected">> }

\* the image is the frame with every pixel gray and its alpha untouched
IsGrayOf(image, frame) ==
    /\ image.kind = "png"
    /\ Len(image.data) = Len(frame)
    /\ \A i \in 1..Len(frame) :
          IF (i - 1) % 4 = 3
          THEN image.data[i] = frame[i]
          ELSE LET r == i - ((i - 1) % 4)
                   sum == frame[r] + frame[r + 1] + frame[r + 2]
               IN  /\ image.data[i] = image.data[r]
                   /\ 3 * image.data[i] - sum \in -1..1

\* C7: within one capture cycle the stages run strictly in sequence:
\* preprocessing before the recognition request, recognition before the
\* filtering, filtering before the answer request; the recognition request
\* carries the gray image of the cycle's frame and the answer request the
\* filtered text of the same cycle.
C7_StagesInSequence ==
    /\ [](/\ \A c \in 1..MaxClicks : \E order \in StageOrders : IsPrefix(stages[c], order)
          /\ \A req \in ocrPending :
                /\ IsGrayOf(req.image, req.frame)
                /\ stages[req.cycle] = <<"capture", "preprocess", "recognize">>
          /\ \A req \in answerPending :
                IsPrefix(<<"capture", "preprocess", "recognize", "recognized", "filter", "answer">>,
                         stages[req.cycle]))
    /\ [][\A req \in ocrPending, text \in OcrTexts :
             OcrResolve(req, text) =>
                \A asked \in answerPending' \ answerPending :
                    /\ asked.cycle = req.cycle
                    /\ asked.question = filterText(Trim(text))]_vars

\* a cycle has reached its answer request with a filtered text, and a later
\* cycle is at its recognition with a frame that was not gray
C7_Witness ==
    /\ \E req \in answerPending : req.question # <<>>
    /\ \E req \in ocrPending : req.image.data # req.frame

\* C8: the Busy Flag is true exactly when a recognition request is
\* outstanding.
C8_BusyIffRecognizing == isProcessing <=> (ocrPending # {})

\* C9: the Busy Flag does not guard the Answering stage: whenever no
\* recognition is outstanding the capture trigger is accepted, also while
\* answer requests are pending, and every reply that arrives overwrites
\* Answer Text, whichever cycle it belongs to.
C9_AnsweringUnguarded ==
    /\ [](( mounted /\ ~isProcessing /\ answerPending # {} /\ clicks < MaxClicks)
            => ENABLED ClickCapture)
    /\ [][\A req \in answerPending :
             (answerPending' = answerPending \ {req})
                => /\ answerCycle' = req.cycle
                   /\ \E outcome \in Outcomes : answer' = fetchAnswerSettled(outcome).answer]_vars

\* two answer requests were outstanding at once and the reply of the earlier
\* cycle arrived last: the displayed answer is older than the displayed text
C9_Witness ==
    /\ answerCycle # 0
    /\ answerCycle < recognizedCycle
    /\ Settled(recognizedCycle)
    /\ answerPending = {}
    /\ recognizedText # NoTextRecognized

\* C10: the output of filterText holds only ASCII letters, digits, whitespace
\* and ? . , ! ; it has no leading or trailing whitespace; its characters are
\* characters of the input in their original order.
RECURSIVE IsSubsequence(_, _)
IsSubsequence(s, t) ==
    IF s = <<>> THEN TRUE
    ELSE IF t = <<>> THEN FALSE
    ELSE IF Head(s) = Head(t) THEN IsSubsequence(Tail(s), Tail(t))
    ELSE IsSubsequence(s, Tail(t))

C10_FilterOutput ==
    (probe.op = "filterText" /\ probe.done) =>
        /\ \A i \in 1..Len(probe.out) :
              probe.out[i] \in Lower \cup Upper \cup Digit \cup WhiteSpace \cup Punct
        /\ probe.out # <<>> =>
              /\ probe.out[1] \notin WhiteSpace
              /\ probe.out[Len(probe.out)] \notin WhiteSpace
        /\ IsSubsequence(probe.out, probe.in)

\* the filter has removed a character and trimmed leading whitespace
C10_Witness ==
    /\ probe.op = "filterText"
    /\ probe.done
    /\ probe.in = <<" ", "#", "a">>
    /\ probe.out = <<"a">>

\* C11: filterText is idempotent: filtering a filtered string gives the
\* same string.
C11_FilterIdempotent ==
    (probe.op = "filterText" /\ probe.redone) => probe.again = probe.out

\* a string that the filter changed has been filtered twice
C11_Witness ==
    /\ probe.op = "filterText"
    /\ probe.redone
    /\ probe.in = <<"#", " ", "a">>
    /\ probe.out = <<"a">>
    /\ probe.again = <<"a">>

\* C12: the grayscale transform turns every pixel (r,g,b,a) of the buffer
\* into (m,m,m,a), m being (r+g+b)/3 as an 8-bit channel stores it (the
\* nearest whole number); alpha is untouched and no pixel is left out.
C12_GrayscalePixels ==
    (probe.op = "grayscale" /\ probe.done) =>
        /\ Len(probe.out) = Len(probe.in)
        /\ \A p \in 0..(Len(probe.in) \div 4 - 1) :
              LET sum == probe.in[4 * p + 1] + probe.in[4 * p + 2] + probe.in[4 * p + 3]
                  m   == probe.out[4 * p + 1]
              IN  /\ m \in 0..255
                  /\ 3 * m - sum \in -1..1
                  /\ probe.out[4 * p + 2] = m
                  /\ probe.out[4 * p + 3] = m
                  /\ probe.out[4 * p + 4] = probe.in[4 * p + 4]

\* a buffer of two coloured pixels has been made gray, one average rounding
\* down and one rounding up
C12_Witness ==
    /\ probe.op = "grayscale"
    /\ probe.done
    /\ probe.in = <<0, 0, 1, 7,  255, 1, 1, 255>>
    /\ probe.out = <<0, 0, 0, 7,  86, 86, 86, 255>>

\* C13: the grayscale transform is idempotent: applied to a buffer it has
\* made gray, it leaves every pixel unchanged.
C13_GrayscaleIdempotent ==
    (probe.op = "grayscale" /\ probe.redone) => probe.again = probe.out

\* a buffer that the transform changed has gone through it twice
C13_Witness ==
    /\ probe.op = "grayscale"
    /\ probe.redone
    /\ probe.in = <<255, 255, 0, 255,  1, 0, 255, 7>>
    /\ probe.out # probe.in
    /\ probe.again = <<170, 170, 170, 255,  85, 85, 85, 7>>

\* C14: when the camera request fails, the video sink stays unbound for the
\* rest of the component's life and the request is not made again; the
\* failure itself leaves Recognized Text, Answer Text, the Busy Flag and the
\* captured-image preview unchanged.
C14_CameraFailureSilent ==
    /\ [](camera.status = "denied" => srcObject = Null)
    /\ [][camera.status = "denied" => camera' = camera]_vars
    /\ [][(camera.status = "pending" /\ camera'.status = "denied")
            => UNCHANGED <<srcObject, recognizedText, answer, isProcessing,
                           capturedImage>>]_vars

\* the request has failed and the component has lived on: the user has
\* clicked and the component was unmounted afterwards
C14_Witness ==
    /\ camera.status = "denied"
    /\ clicks >= 1
    /\ ~mounted
    /\ srcObject = Null

\* C15: every request to the answer endpoint carries a non-empty question,
\* also when the OCR text is non-empty after trimming but holds only
\* characters that filterText removes.
C15_QuestionNonEmpty ==
    \A req \in answerPending : req.question # <<>>

\* C16: a recognition completion issues at most one answer request and the
\* settling of an answer request issues none: the count of answer requests
\* grows by one at a time, only in a step in which a recognition completes
\* with a text that is shown (not the sentinel), so it never exceeds the
\* number of completed recognitions.
C16_OneRequestPerRecognition ==
    /\ [](answerCalls <= recognizeCalls - Cardinality(ocrPending))
    /\ [][answerCalls' # answerCalls =>
            /\ answerCalls' = answerCalls + 1
            /\ \E req \in ocrPending : ocrPending' = ocrPending \ {req}
            /\ recognizedText' # NoTextRecognized]_vars
    /\ [][(\E req \in answerPending : req \notin answerPending')
            => answerCalls' = answerCalls]_vars

\* two recognitions have completed, one with a text whose answer request
\* failed and one without text: one request was issued in all
C16_Witness ==
    /\ recognizeCalls = 2
    /\ ocrPending = {}
    /\ answerPending = {}
    /\ answer = Apology
    /\ recognizedText = NoTextRecognized
    /\ answerCalls = 1

\* C17: a capture trigger while the Busy Flag is set leaves the Frame
\* Buffer, the captured-image preview, Recognized Text, Answer Text and the
\* Busy Flag unchanged.
C17_BusyTriggerIgnored ==
    [][(isProcessing /\ clicks' = clicks + 1)
         => UNCHANGED <<canvas, capturedImage, recognizedText, answer,
                        isProcessing, ocrPending, recognizeCalls>>]_vars

\* the button was clicked during the recognition of the first frame, whose
\* gray pixels are still in the canvas
C17_Witness ==
    /\ clicks = 2
    /\ isProcessing
    /\ \E req \in ocrPending :
          /\ req.cycle = 1
          /\ canvas = Grayscale(req.frame)
          /\ capturedImage = toDataURL(req.frame)
    /\ stages[2] = <<>>

\* C18: no camera track stays live after teardown, whatever the order of
\* the camera grant and the teardown.
C18_NoLiveTrackAfterTeardown ==
    (~mounted /\ camera.status = "granted")
        => \A t \in camera.tracks : stopCount[t] >= 1

\* C19: Answer Text changes only in a step in which an answer request
\* settles; a recognition that completes with the sentinel leaves Answer
\* Text as it was.
C19_AnswerKeptWithoutText ==
    /\ [][answer' # answer =>
            \E req \in answerPending : answerPending' = answerPending \ {req}]_vars
    /\ [][((\E req \in ocrPending : ocrPending' = ocrPending \ {req})
            /\ recognizedText' = NoTextRecognized) => answer' = answer]_vars

\* the answer of the first cycle is displayed next to the sentinel of the
\* second
C19_Witness ==
    /\ recognizedText = NoTextRecognized
    /\ recognizedCycle = 2
    /\ answerCycle = 1
    /\ answer \in Contents
    /\ answerPending = {}

====
